---- MODULE Spec2Model ----
(***************************************************************************)
(* A model of blackbox/stats/distributions.py: the distribution singletons *)
(* and their rvs / logpdf / logpmf / entropy methods.                      *)
(*                                                                         *)
(* Numbers are exact.  A number is a finite linear combination, with       *)
(* rational coefficients, of the atoms 1, log(pi), log(p) for p prime and  *)
(* logGamma(q) for q rational, so that log(x*y) = log(x) + log(y) and      *)
(* log(1) = 0 hold in the model and two numbers are equal exactly when     *)
(* their representations are.  A tensor is a shape and a row-major         *)
(* sequence of numbers; a raised exception is a value that every later     *)
(* operation propagates.                                                   *)
(***************************************************************************)
EXTENDS Integers, Sequences, FiniteSets, TLC

\* ---------------------------------------------------------------- bounds
\* Largest dimensionality d of an observation, mean or covariance.
MaxD == 2
\* Entries of the Normal's observations and means range over 0..MaxX.
MaxX == 1
\* Variances, shapes, scales and counts range over 1..MaxVal.
MaxVal == 2
\* The sampling backend's global generator has states 0..MaxSeed.
MaxSeed == 7

\* ------------------------------------------------------------- rationals
Abs(n) == IF n < 0 THEN -n ELSE n

Max(a, b) == IF a < b THEN b ELSE a

RECURSIVE Gcd(_, _)
Gcd(a, b) == IF b = 0 THEN a ELSE Gcd(b, a % b)

\* The rational n/d in lowest terms with a positive denominator (d # 0).
Rat(n, d) ==
    LET g == Gcd(Abs(n), Abs(d))
        s == IF d < 0 THEN -1 ELSE 1
    IN  <<(s * n) \div g, (s * d) \div g>>

RInt(n) == <<n, 1>>
RAdd(p, q) == Rat(p[1] * q[2] + q[1] * p[2], p[2] * q[2])
RMul(p, q) == Rat(p[1] * q[1], p[2] * q[2])
RNeg(p) == <<-p[1], p[2]>>
RInv(p) == Rat(p[2], p[1])
RHalf == <<1, 2>>

\* --------------------------------------------------------------- numbers
One == <<"one", 1, 1>>
LogPi == <<"logpi", 1, 1>>
NaNAtom == <<"nan", 1, 1>>
LogP(p) == <<"log", p, 1>>
LGam(q) == <<"lgamma", q[1], q[2]>>

Coef(v, a) == IF a \in DOMAIN v THEN v[a] ELSE RInt(0)

NZero == [a \in {} |-> RInt(0)]
NAtom(a) == [b \in {a} |-> RInt(1)]
NRat(q) == IF q[1] = 0 THEN NZero ELSE [b \in {One} |-> q]
NInt(n) == NRat(RInt(n))
NaN == NAtom(NaNAtom)
IsNaN(v) == NaNAtom \in DOMAIN v
IsRat(v) == DOMAIN v \subseteq {One}
RatOf(v) == Coef(v, One)

NAdd(u, v) ==
    IF IsNaN(u) \/ IsNaN(v) THEN NaN
    ELSE LET S == {a \in DOMAIN u \cup DOMAIN v :
                      RAdd(Coef(u, a), Coef(v, a))[1] # 0}
         IN  [a \in S |-> RAdd(Coef(u, a), Coef(v, a))]

NScale(q, v) ==
    IF IsNaN(v) THEN NaN
    ELSE IF q[1] = 0 THEN NZero
    ELSE [a \in DOMAIN v |-> RMul(q, v[a])]

NNeg(v) == NScale(RInt(-1), v)
NSub(u, v) == NAdd(u, NNeg(v))

\* Every product the formulas of the source form has a rational factor.
NMul(u, v) ==
    IF IsRat(u) THEN NScale(RatOf(u), v)
    ELSE IF IsRat(v) THEN NScale(RatOf(v), u)
    ELSE NaN

NDiv(u, v) ==
    IF IsRat(v) /\ RatOf(v)[1] # 0 THEN NScale(RInv(RatOf(v)), u) ELSE NaN

\* log of a positive integer, by its prime factorisation.
RECURSIVE LogNat(_)
LogNat(n) ==
    IF n = 1 THEN NZero
    ELSE LET p == CHOOSE k \in 2..n :
                      /\ n % k = 0
                      /\ \A j \in 2..(k - 1) : n % j # 0
         IN  NAdd(NAtom(LogP(p)), LogNat(n \div p))

\* log of a number: defined for positive rationals, NaN otherwise.
NLog(v) ==
    IF IsRat(v) /\ RatOf(v)[1] > 0
    THEN NSub(LogNat(RatOf(v)[1]), LogNat(RatOf(v)[2]))
    ELSE NaN

\* log(2*pi) = log(2) + log(pi)
Log2Pi == NAdd(LogNat(2), NAtom(LogPi))

\* --------------------------------------------------------------- tensors
Tensor(sh, el) == [k |-> "tensor", sh |-> sh, el |-> el]
None == [k |-> "None", sh |-> <<>>, el |-> <<>>]
Raise(e) == [k |-> e, sh |-> <<>>, el |-> <<>>]
IsT(A) == A.k = "tensor"
IsRaised(A) == A.k \notin {"tensor", "None"}
Rank(A) == Len(A.sh)
Scalar(v) == Tensor(<<>>, <<v>>)
Vec(s) == Tensor(<<Len(s)>>, s)

RECURSIVE Size(_)
Size(sh) == IF sh = <<>> THEN 1 ELSE Head(sh) * Size(Tail(sh))

\* A shape of rank <= 2 padded on the left to rank 2, as broadcasting does.
Pad2(sh) ==
    IF Len(sh) = 0 THEN <<1, 1>>
    ELSE IF Len(sh) = 1 THEN <<1, sh[1]>>
    ELSE sh

\* Element (i, j) of A broadcast to a larger rank-2 shape.
At(A, i, j) ==
    LET p == Pad2(A.sh)
        ii == IF p[1] = 1 THEN 1 ELSE i
        jj == IF p[2] = 1 THEN 1 ELSE j
    IN  A.el[(ii - 1) * p[2] + jj]

\* The first operand that is not a tensor decides the outcome: a raised
\* exception propagates, None is a TypeError.
Bad(A) == IF IsRaised(A) THEN A ELSE Raise("TypeError")

\* The scalar operation an elementwise operator applies to each entry.
Apply2(op, u, v) ==
    CASE op = "add" -> NAdd(u, v)
      [] op = "sub" -> NSub(u, v)
      [] op = "mul" -> NMul(u, v)
      [] op = "truediv" -> NDiv(u, v)

Apply1(op, u) ==
    CASE op = "log" -> NLog(u)
      [] op = "neg" -> NNeg(u)

\* An elementwise binary operation with broadcasting.
BOp(op, A, B) ==
    IF ~IsT(A) THEN Bad(A)
    ELSE IF ~IsT(B) THEN Bad(B)
    ELSE LET pa == Pad2(A.sh)
             pb == Pad2(B.sh)
             ok == \A i \in 1..2 : pa[i] = pb[i] \/ pa[i] = 1 \/ pb[i] = 1
             rows == Max(pa[1], pb[1])
             cols == Max(pa[2], pb[2])
             rk == Max(Len(A.sh), Len(B.sh))
             sh == IF rk = 0 THEN <<>>
                   ELSE IF rk = 1 THEN <<cols>>
                   ELSE <<rows, cols>>
         IN  IF ~ok THEN Raise("ValueError")
             ELSE Tensor(sh,
                    [n \in 1..(rows * cols) |->
                        Apply2(op,
                           At(A, ((n - 1) \div cols) + 1, ((n - 1) % cols) + 1),
                           At(B, ((n - 1) \div cols) + 1, ((n - 1) % cols) + 1))])

\* An elementwise unary operation.
UOp(op, A) ==
    IF ~IsT(A) THEN Bad(A)
    ELSE Tensor(A.sh, [n \in 1..Len(A.el) |-> Apply1(op, A.el[n])])

tf_add(A, B) == BOp("add", A, B)
tf_sub(A, B) == BOp("sub", A, B)
tf_mul(A, B) == BOp("mul", A, B)
tf_truediv(A, B) == BOp("truediv", A, B)
tf_log(A) == UOp("log", A)
tf_neg(A) == UOp("neg", A)
tf_constant(q) == Scalar(NRat(q))

tf_ones(d) == Tensor(<<d>>, [i \in 1..d |-> NInt(1)])

\* tf.squeeze: every dimension of size 1 is removed.
tf_squeeze(A) ==
    IF ~IsT(A) THEN Bad(A)
    ELSE Tensor(SelectSeq(A.sh, LAMBDA n : n # 1), A.el)

\* tf.reshape to a given shape; -1 stands for the one inferred dimension.
tf_reshape(A, sh) ==
    IF ~IsT(A) THEN Bad(A)
    ELSE IF sh = <<-1>> THEN Tensor(<<Len(A.el)>>, A.el)
    ELSE IF Size(sh) # Len(A.el) THEN Raise("ValueError")
    ELSE Tensor(sh, A.el)

\* tf.transpose reverses the dimensions.
tf_transpose(A) ==
    IF ~IsT(A) THEN Bad(A)
    ELSE IF Rank(A) < 2 THEN A
    ELSE Tensor(<<A.sh[2], A.sh[1]>>,
           [n \in 1..Len(A.el) |->
               A.el[((n - 1) % A.sh[1]) * A.sh[2] + ((n - 1) \div A.sh[1]) + 1]])

\* tf.diag of a vector: the square matrix with it on the diagonal.
tf_diag(A) ==
    IF ~IsT(A) THEN Bad(A)
    ELSE IF Rank(A) # 1 THEN Raise("ValueError")
    ELSE LET n == A.sh[1]
         IN  Tensor(<<n, n>>,
               [m \in 1..(n * n) |->
                   IF (m - 1) \div n = (m - 1) % n
                   THEN A.el[((m - 1) % n) + 1] ELSE NZero])

RECURSIVE FoldN(_, _, _)
FoldN(op, unit, s) ==
    IF s = <<>> THEN unit ELSE Apply2(op, Head(s), FoldN(op, unit, Tail(s)))

tf_reduce_prod(A) ==
    IF ~IsT(A) THEN Bad(A) ELSE Scalar(FoldN("mul", NInt(1), A.el))
tf_reduce_sum(A) ==
    IF ~IsT(A) THEN Bad(A) ELSE Scalar(FoldN("add", NZero, A.el))

\* tf.matmul: both operands of rank 2 with matching inner dimension.
tf_matmul(A, B) ==
    IF ~IsT(A) THEN Bad(A)
    ELSE IF ~IsT(B) THEN Bad(B)
    ELSE IF Rank(A) # 2 \/ Rank(B) # 2 THEN Raise("ValueError")
    ELSE IF A.sh[2] # B.sh[1] THEN Raise("ValueError")
    ELSE LET n == A.sh[1]
             m == A.sh[2]
             p == B.sh[2]
         IN  Tensor(<<n, p>>,
               [e \in 1..(n * p) |->
                   FoldN("add", NZero,
                     [t \in 1..m |->
                         NMul(A.el[((e - 1) \div p) * m + t],
                              B.el[(t - 1) * p + ((e - 1) % p) + 1])])])

\* The rows of a rank-2 tensor of rationals.
Rows(A) ==
    [i \in 1..A.sh[1] |-> [j \in 1..A.sh[2] |-> RatOf(A.el[(i - 1) * A.sh[2] + j])]]

Minor(m, i, j) ==
    [r \in 1..(Len(m) - 1) |->
        [c \in 1..(Len(m) - 1) |->
            m[IF r < i THEN r ELSE r + 1][IF c < j THEN c ELSE c + 1]]]

RECURSIVE RSum(_)
RSum(s) == IF s = <<>> THEN RInt(0) ELSE RAdd(Head(s), RSum(Tail(s)))

Sign(n) == IF n % 2 = 0 THEN RInt(1) ELSE RInt(-1)

\* Determinant by expansion along the first row.
RECURSIVE RDet(_)
RDet(m) ==
    IF Len(m) = 1 THEN m[1][1]
    ELSE RSum([j \in 1..Len(m) |->
                  RMul(RMul(Sign(1 + j), m[1][j]), RDet(Minor(m, 1, j)))])

Cofactor(m, i, j) ==
    IF Len(m) = 1 THEN RInt(1) ELSE RMul(Sign(i + j), RDet(Minor(m, i, j)))

tf_matrix_determinant(A) ==
    IF ~IsT(A) THEN Bad(A)
    ELSE IF Rank(A) # 2 \/ A.sh[1] # A.sh[2] THEN Raise("ValueError")
    ELSE Scalar(NRat(RDet(Rows(A))))

\* The inverse as adjugate over determinant; a singular matrix is refused.
tf_matrix_inverse(A) ==
    IF ~IsT(A) THEN Bad(A)
    ELSE IF Rank(A) # 2 \/ A.sh[1] # A.sh[2] THEN Raise("ValueError")
    ELSE LET m == Rows(A)
             n == Len(m)
             det == RDet(m)
         IN  IF det[1] = 0 THEN Raise("InvalidArgumentError")
             ELSE Tensor(<<n, n>>,
                    [e \in 1..(n * n) |->
                        NRat(RMul(Cofactor(m, ((e - 1) % n) + 1, ((e - 1) \div n) + 1),
                                  RInv(det)))])

\* ------------------------------------------------------- blackbox.util
\* get_dims: the value of each dimension; a scalar counts as [1].
get_dims(x) == IF Rank(x) = 0 THEN <<1>> ELSE x.sh

\* dot: a matrix-vector product; the vector operand is made a row when it
\* comes first and a column when it comes second.
dot(x, y) ==
    IF ~IsT(x) THEN Bad(x)
    ELSE IF ~IsT(y) THEN Bad(y)
    ELSE IF Rank(x) = 1
         THEN tf_matmul(tf_reshape(x, <<1, x.sh[1]>>), y)
         ELSE IF Rank(y) = 0 THEN Raise("ValueError")
         ELSE tf_matmul(x, tf_reshape(y, <<y.sh[1], 1>>))

\* ------------------------------------------------------------------ Norm
\* Mutant: d read off the covariance when one is given.
Norm_dims_fromSigma(x, mu, Sigma) ==
    IF Sigma = None THEN get_dims(x)[1] ELSE get_dims(Sigma)[1]

\* d = get_dims(x)[0]
Norm_dims(x, mu, Sigma) == get_dims(x)[1]

\* Mutant: the operands of the scalar subtraction exchanged.
Norm_residual_swapped(x, mu, d) ==
    IF mu = None THEN tf_mul(tf_ones(d), x)
    ELSE IF Rank(mu) = 0 THEN tf_sub(mu, x)
    ELSE tf_sub(x, mu)

\* The residual r, by the three-way branch on mu.
Norm_residual(x, mu, d) ==
    IF mu = None THEN tf_mul(tf_ones(d), x)
    ELSE IF Rank(mu) = 0 THEN tf_sub(x, mu)
    ELSE tf_sub(x, mu)

\* (Sigma_inv, det_Sigma), by the four-way branch on Sigma; taken lists the
\* branch bodies that ran.
Norm_covariance(Sigma, d) ==
    IF Sigma = None
    THEN [taken |-> <<"absent">>,
          Sigma_inv |-> tf_diag(tf_ones(d)),
          det_Sigma |-> tf_constant(RInt(1))]
    ELSE IF Rank(Sigma) = 0
    THEN [taken |-> <<"scalar">>,
          Sigma_inv |-> tf_truediv(tf_constant(RInt(1)), Sigma),
          det_Sigma |-> Sigma]
    ELSE IF Rank(Sigma) = 1
    THEN [taken |-> <<"vector">>,
          Sigma_inv |-> tf_diag(tf_truediv(tf_constant(RInt(1)), Sigma)),
          det_Sigma |-> tf_reduce_prod(Sigma)]
    ELSE [taken |-> <<"matrix">>,
          Sigma_inv |-> tf_matrix_inverse(Sigma),
          det_Sigma |-> tf_matrix_determinant(Sigma)]

\* Mutant: the factor 0.5 of the first term dropped.
Norm_normalizer_noHalf(d, det_Sigma) ==
    tf_sub(Scalar(NScale(RInt(-d), Log2Pi)),
           tf_mul(tf_constant(RHalf), tf_log(det_Sigma)))

\* -0.5*d*log(2*pi) - 0.5*log(det_Sigma), the part both paths share.
Norm_normalizer(d, det_Sigma) ==
    tf_sub(Scalar(NScale(RMul(RNeg(RHalf), RInt(d)), Log2Pi)),
           tf_mul(tf_constant(RHalf), tf_log(det_Sigma)))

\* lps: elementwise arithmetic when d = 1, the quadratic form otherwise.
Norm_density(d, r, Sigma_inv, det_Sigma) ==
    IF d = 1
    THEN tf_sub(Norm_normalizer(d, det_Sigma),
                tf_mul(tf_mul(tf_mul(tf_constant(RHalf), r), Sigma_inv), r))
    ELSE tf_sub(Norm_normalizer(d, det_Sigma),
                tf_mul(tf_constant(RHalf),
                       dot(dot(tf_transpose(r), Sigma_inv), r)))

\* Mutant: return tf.squeeze(lps), the line the source comments out.
Norm_return_squeeze(lps) == tf_squeeze(lps)

\* return tf.reshape(lps, [-1])
Norm_return(lps) == tf_reshape(lps, <<-1>>)

\* One call of Norm.logpdf: its locals and the value it returns.  A residual
\* that raised ends the call before the covariance step.
Norm_logpdf(x, mu, Sigma) ==
    LET d == Norm_dims(x, mu, Sigma)
        r == Norm_residual(x, mu, d)
        c == Norm_covariance(Sigma, d)
        lps == Norm_density(d, r, c.Sigma_inv, c.det_Sigma)
    IN  IF IsRaised(r)
        THEN [d |-> d, r |-> r, taken |-> <<>>, Sigma_inv |-> None,
              det_Sigma |-> None, lps |-> r, ret |-> r]
        ELSE [d |-> d, r |-> r, taken |-> c.taken, Sigma_inv |-> c.Sigma_inv,
              det_Sigma |-> c.det_Sigma, lps |-> lps, ret |-> Norm_return(lps)]

\* Mutant: the entries of a diagonal covariance summed, not multiplied.
Norm_entropy_det_sum(Sigma) ==
    IF Rank(Sigma) = 0 THEN Sigma
    ELSE IF Rank(Sigma) = 1 THEN tf_reduce_sum(Sigma)
    ELSE tf_matrix_determinant(Sigma)

\* det_Sigma of Norm.entropy, by the three-way branch on Sigma.
Norm_entropy_det(Sigma) ==
    IF Rank(Sigma) = 0 THEN Sigma
    ELSE IF Rank(Sigma) = 1 THEN tf_reduce_prod(Sigma)
    ELSE tf_matrix_determinant(Sigma)

\* Norm.entropy: 0.5 * (d + d*log(2*pi) + log(det_Sigma))
Norm_entropy(Sigma) ==
    LET d == get_dims(Sigma)[1]
        det_Sigma == Norm_entropy_det(Sigma)
    IN  tf_mul(tf_constant(RHalf),
               tf_add(Scalar(NAdd(NInt(d), NScale(RInt(d), Log2Pi))),
                      tf_log(det_Sigma)))

\* -------------------------------------- blackbox.util special functions
NLGamma(v) == IF IsRat(v) THEN NAtom(LGam(RatOf(v))) ELSE NaN
log_gamma(x) ==
    IF ~IsT(x) THEN Bad(x)
    ELSE Tensor(x.sh, [n \in 1..Len(x.el) |-> NLGamma(x.el[n])])
log_beta(x, y) ==
    tf_sub(tf_add(log_gamma(x), log_gamma(y)), log_gamma(tf_add(x, y)))
log_dirichlet(x) ==
    tf_sub(tf_reduce_sum(log_gamma(x)), log_gamma(tf_reduce_sum(x)))
log_multinomial(x, n) ==
    tf_sub(log_gamma(tf_add(n, tf_constant(RInt(1)))),
           tf_reduce_sum(log_gamma(tf_add(x, tf_constant(RInt(1))))))
log_inv_gamma(alpha, beta) ==
    tf_sub(log_gamma(alpha), tf_mul(alpha, tf_log(beta)))

C(n) == tf_constant(RInt(n))

\* ------------------------------------------------ closed-form densities
Bernoulli_logpmf(x0, p0) ==
    LET x == tf_squeeze(x0)
        p == tf_squeeze(p0)
    IN  tf_add(tf_mul(x, tf_log(p)),
               tf_mul(tf_sub(C(1), x), tf_log(tf_sub(C(1), p))))

\* The formula of Beta.logpdf on the squeezed values it is given.
Beta_formula(x, a, b) ==
    tf_sub(tf_add(tf_mul(tf_sub(a, C(1)), tf_log(x)),
                  tf_mul(tf_sub(b, C(1)), tf_log(tf_sub(C(1), x)))),
           log_beta(a, b))

\* Mutant: each shape parameter squeezed into its own name.
Beta_logpdf_unswapped(x0, a0, b0) ==
    Beta_formula(tf_squeeze(x0), tf_squeeze(a0), tf_squeeze(b0))

\* a = tf.squeeze(b); b = tf.squeeze(a): the second statement reads the a
\* the first one has just assigned.
Beta_logpdf(x0, a0, b0) ==
    LET x == tf_squeeze(x0)
        a == tf_squeeze(b0)
        b == tf_squeeze(a)
    IN  Beta_formula(x, a, b)

Dirichlet_logpdf(x0, alpha0) ==
    LET x == tf_squeeze(x0)
        alpha == tf_squeeze(alpha0)
    IN  tf_add(tf_neg(log_dirichlet(alpha)),
               tf_reduce_sum(tf_mul(tf_sub(alpha, C(1)), tf_log(x))))

Expon_logpdf(x0, scale0) ==
    LET x == tf_squeeze(x0)
        scale == tf_squeeze(scale0)
    IN  tf_sub(tf_truediv(tf_neg(x), scale), tf_log(scale))

\* Mutant: scale taken for a rate.
Gamma_logpdf_rate(x0, a0, scale0) ==
    LET x == tf_squeeze(x0)
        a == tf_squeeze(a0)
        scale == tf_squeeze(scale0)
    IN  tf_sub(tf_sub(tf_sub(tf_mul(tf_sub(a, C(1)), tf_log(x)),
                             tf_mul(x, scale)),
                      tf_mul(a, tf_log(scale))),
               log_gamma(a))

Gamma_logpdf(x0, a0, scale0) ==
    LET x == tf_squeeze(x0)
        a == tf_squeeze(a0)
        scale == tf_squeeze(scale0)
    IN  tf_sub(tf_sub(tf_sub(tf_mul(tf_sub(a, C(1)), tf_log(x)),
                             tf_truediv(x, scale)),
                      tf_mul(a, tf_log(scale))),
               log_gamma(a))

InvGamma_logpdf(x0, alpha0, beta0) ==
    LET x == tf_squeeze(x0)
        alpha == tf_squeeze(alpha0)
        beta == tf_squeeze(beta0)
    IN  tf_sub(tf_sub(tf_neg(log_inv_gamma(alpha, beta)),
                      tf_mul(tf_add(alpha, C(1)), tf_log(x))),
               tf_truediv(beta, x))

Multinomial_logpmf(x0, n0, p0) ==
    LET x == tf_squeeze(x0)
        n == tf_squeeze(n0)
        p == tf_squeeze(p0)
    IN  tf_add(tf_neg(log_multinomial(x, n)),
               tf_reduce_sum(tf_mul(x, tf_log(p))))

Poisson_logpmf(x0, mu0) ==
    LET x == tf_squeeze(x0)
        mu == tf_squeeze(mu0)
    IN  tf_sub(tf_sub(tf_mul(x, tf_log(mu)), mu),
               log_gamma(tf_add(x, C(1))))

T_logpdf(x0, df0, loc0, scale0) ==
    LET x == tf_squeeze(x0)
        df == tf_squeeze(df0)
        loc == tf_squeeze(loc0)
        scale == tf_squeeze(scale0)
        z == tf_truediv(tf_sub(x, loc), scale)
        half == tf_constant(RHalf)
    IN  tf_sub(
          tf_add(
            tf_sub(tf_sub(tf_mul(half, log_gamma(tf_add(df, C(1)))),
                          log_gamma(tf_mul(half, df))),
                   tf_mul(half, tf_add(Scalar(NAtom(LogPi)), tf_log(df)))),
            tf_log(scale)),
          tf_mul(tf_mul(half, tf_add(df, C(1))),
                 tf_log(tf_add(C(1),
                               tf_mul(tf_truediv(C(1), df), tf_mul(z, z))))))

\* Mutant: a stub that returns zero.
Wishart_logpdf_stub(x, df, scale) == Scalar(NZero)

\* Wishart.logpdf: raise NotImplementedError()
Wishart_logpdf(x, df, scale) == Raise("NotImplementedError")

\* ------------------------------------------------------ sampling backend
\* scipy.stats / numpy.random draw from one process-wide generator; a draw
\* reads its state and advances it.
Uniforms == 0..MaxSeed
Advance(g, n) == (g + n) % (MaxSeed + 1)

\* The variate of a distribution at the generator's state u: a Bernoulli
\* draw is 1 when the uniform u / (MaxSeed + 1) falls below p; any other
\* family's is its quantile at u, kept symbolic.
Variate(dist, params, u) ==
    IF dist = "bernoulli"
    THEN (IF u * params[1][2] < params[1][1] * (MaxSeed + 1)
          THEN <<"bernoulli", <<RInt(1)>>, 0>>
          ELSE <<"bernoulli", <<RInt(0)>>, 0>>)
    ELSE <<dist, params, u>>

\* <backend>.rvs(params, size=size): an array of size variates.
stats_rvs(dist, params, size, g) ==
    [ret |-> [k |-> "ndarray", sh |-> <<size>>,
              el |-> [i \in 1..size |-> Variate(dist, params, Advance(g, i - 1))]],
     rng |-> Advance(g, size)]

Bernoulli_rvs(params, size, g) == stats_rvs("bernoulli", params, size, g)
Beta_rvs(params, size, g) == stats_rvs("beta", params, size, g)
Dirichlet_rvs(params, size, g) == stats_rvs("dirichlet", params, size, g)
Expon_rvs(params, size, g) == stats_rvs("expon", params, size, g)
Gamma_rvs(params, size, g) == stats_rvs("gamma", params, size, g)
InvGamma_rvs(params, size, g) == stats_rvs("invgamma", params, size, g)
Multinomial_rvs(params, size, g) == stats_rvs("multinomial", params, size, g)
Norm_rvs(params, size, g) == stats_rvs("norm", params, size, g)
Poisson_rvs(params, size, g) == stats_rvs("poisson", params, size, g)
T_rvs(params, size, g) == stats_rvs("t", params, size, g)
Wishart_rvs(params, size, g) == stats_rvs("wishart", params, size, g)

\* ---------------------------------------------------------------- inputs
Dists == {"bernoulli", "beta", "dirichlet", "expon", "gamma", "invgamma",
          "multinomial", "norm", "poisson", "t", "wishart"}

NumsX == {NInt(v) : v \in 0..MaxX}
Vars == {NInt(v) : v \in 1..MaxVal}
\* Vectors of length n over the integers lo..hi, entries in non-decreasing
\* order (one representative of each multiset of entries).
Sorted(lo, hi, n) ==
    {s \in [1..n -> lo..hi] : \A i \in 1..(n - 1) : s[i] <= s[i + 1]}
VecsOf(lo, hi, n) ==
    {Tensor(<<n>>, [i \in 1..n |-> NInt(s[i])]) : s \in Sorted(lo, hi, n)}
ConstVec(v, n) == Tensor(<<n>>, [i \in 1..n |-> v])

\* Observations of dimensionality d: vectors, and scalars when d = 1.
Obs(d) == VecsOf(0, MaxX, d) \cup (IF d = 1 THEN {Scalar(v) : v \in NumsX} ELSE {})

\* Means that broadcast against an observation of dimensionality d.
Means(d) ==
    {None} \cup {Scalar(v) : v \in NumsX} \cup {ConstVec(v, d) : v \in NumsX}

\* The symmetric matrix with diagonal v and every other entry t.
SymMat(v, t, n) ==
    Tensor(<<n, n>>,
      [e \in 1..(n * n) |->
          IF (e - 1) \div n = (e - 1) % n THEN v[((e - 1) % n) + 1] ELSE t])

\* Positive definite: every leading principal minor is positive.
IsPosDef(A) ==
    \A k \in 1..A.sh[1] :
        RDet([i \in 1..k |-> [j \in 1..k |-> Rows(A)[i][j]]])[1] > 0

\* Covariances for dimensionality d, in each of the four representations.
Covs(d) ==
    {None} \cup {Scalar(v) : v \in Vars} \cup VecsOf(1, MaxVal, d)
      \cup {A \in {SymMat(v.el, NZero, d) : v \in VecsOf(1, MaxVal, d)}
                    \cup {SymMat([i \in 1..d |-> v], NInt(1), d) : v \in Vars} :
               IsPosDef(A)}

Probs == {NRat(Rat(1, n)) : n \in 2..(MaxVal + 1)}
PosRats == Vars \cup {NRat(Rat(1, n)) : n \in 1..MaxVal}
Wrap(S) == {Scalar(v) : v \in S} \cup {Tensor(<<1>>, <<v>>) : v \in S}
Scalars(S) == {Scalar(v) : v \in S}
\* (q, 1 - q) for the probabilities q
ProbVecs == {Tensor(<<2>>, <<q, NSub(NInt(1), q)>>) : q \in Probs}
\* Count vectors (i, n - i) with their total n
Counts == {<<Tensor(<<2>>, <<NInt(i), NInt(n - i)>>), Scalar(NInt(n))>> :
              n \in 1..MaxVal, i \in 0..1}

Job(dist, m, args, size) ==
    [dist |-> dist, m |-> m, args |-> args, size |-> size]

\* The density method of each class.
DensityMethod(dist) ==
    IF dist \in {"bernoulli", "multinomial", "poisson"} THEN "logpmf" ELSE "logpdf"

\* Norm.entropy(Sigma), with the mean of the Normal it is asked about.
EntropyArgs ==
    UNION {Means(d) \X (Covs(d) \ {None}) : d \in 1..MaxD}

DensityArgs(dist) ==
    CASE dist = "norm" ->
           UNION {Obs(d) \X Means(d) \X Covs(d) : d \in 1..MaxD}
      [] dist = "bernoulli" -> Wrap({NInt(0), NInt(1)}) \X Wrap(Probs)
      [] dist = "beta" -> Wrap(Probs) \X Scalars(Vars) \X Scalars(Vars)
      [] dist = "dirichlet" -> ProbVecs \X VecsOf(1, MaxVal, 2)
      [] dist = "expon" -> Wrap(NumsX) \X Scalars(PosRats)
      [] dist = "gamma" -> Wrap(PosRats) \X Scalars(Vars) \X Scalars(PosRats)
      [] dist = "invgamma" -> Wrap(PosRats) \X Scalars(Vars) \X Scalars(PosRats)
      [] dist = "multinomial" ->
           {<<c[1], c[2], p>> : c \in Counts, p \in ProbVecs}
      [] dist = "poisson" -> Wrap(NumsX) \X Scalars(Vars)
      [] dist = "t" ->
           Wrap(NumsX) \X Scalars(Vars) \X Scalars(NumsX) \X Scalars(Vars)
      [] dist = "wishart" -> Scalars(Vars) \X Scalars(Vars) \X Scalars(Vars)

\* Parameters of a sampling call, as rationals.
SampleArgs(dist) ==
    IF dist = "bernoulli" THEN {<<RatOf(q)>> : q \in Probs}
    ELSE {<<RInt(v)>> : v \in 1..MaxVal}

\* ----------------------------------------------------------------- state
VARIABLES
    job,     \* the singleton and method under call, the arguments passed
    last,    \* the latest call: method, returned value, Norm.logpdf's locals
    prev,    \* the call before it
    rng,     \* the sampling backend's process-wide generator state
    attrs    \* each singleton's instance attributes

vars == <<job, last, prev, rng, attrs>>

\* The record of a call that returned ret; only Norm.logpdf fills in locals.
Frame(ret) ==
    [ret |-> ret, d |-> 0, r |-> None, taken |-> <<>>, Sigma_inv |-> None,
     det_Sigma |-> None, lps |-> None]
NoCall == [m |-> "none", f |-> Frame(None)]

\* The module-level singletons: bernoulli = Bernoulli(), ...; no class
\* defines __init__, so each instance starts with no attribute.
Singletons == [c \in Dists |-> {}]

\* Mutant: a method that memoizes on its instance.
SelfAfter_memo(dict, m) == dict \cup {m}

\* What a method leaves in its instance: no method body assigns to self.
SelfAfter(dict, m) == dict

Init ==
    /\ \/ \E dist \in Dists : \E a \in DensityArgs(dist) :
            /\ job = Job(dist, DensityMethod(dist), a, 0)
            /\ rng = 0
       \/ \E a \in EntropyArgs :
            /\ job = Job("norm", "entropy", a, 0)
            /\ rng = 0
       \/ \E dist \in Dists : \E a \in SampleArgs(dist) : \E n \in 1..2 :
            /\ job = Job(dist, "rvs", a, n)
            /\ rng \in Uniforms
    /\ last = NoCall
    /\ prev = NoCall
    /\ attrs = Singletons

\* A density or entropy call ending with the frame f.
Returns(m, f) ==
    /\ last' = [m |-> m, f |-> f]
    /\ prev' = last
    /\ attrs' = [attrs EXCEPT ![job.dist] = SelfAfter(@, m)]
    /\ UNCHANGED <<job, rng>>

\* A sampling call returning s.ret and leaving the generator at s.rng.
Samples(m, s) ==
    /\ last' = [m |-> m, f |-> Frame(s.ret)]
    /\ rng' = s.rng
    /\ prev' = last
    /\ attrs' = [attrs EXCEPT ![job.dist] = SelfAfter(@, m)]
    /\ UNCHANGED job

Density(dist) == job.dist = dist /\ job.m = DensityMethod(dist)
Sampling(dist) == job.dist = dist /\ job.m = "rvs"

NormLogpdf ==
    /\ Density("norm")
    /\ Returns("logpdf", Norm_logpdf(job.args[1], job.args[2], job.args[3]))

\* entropy has no default for Sigma: it is called with a tensor.  The mean
\* in job.args[1] is not among its parameters.
NormEntropy ==
    /\ job.dist = "norm" /\ job.m = "entropy"
    /\ Returns("entropy", Frame(Norm_entropy(job.args[2])))

BernoulliLogpmf ==
    /\ Density("bernoulli")
    /\ Returns("logpmf", Frame(Bernoulli_logpmf(job.args[1], job.args[2])))

BetaLogpdf ==
    /\ Density("beta")
    /\ Returns("logpdf",
               Frame(Beta_logpdf(job.args[1], job.args[2], job.args[3])))

DirichletLogpdf ==
    /\ Density("dirichlet")
    /\ Returns("logpdf", Frame(Dirichlet_logpdf(job.args[1], job.args[2])))

ExponLogpdf ==
    /\ Density("expon")
    /\ Returns("logpdf", Frame(Expon_logpdf(job.args[1], job.args[2])))

GammaLogpdf ==
    /\ Density("gamma")
    /\ Returns("logpdf",
               Frame(Gamma_logpdf(job.args[1], job.args[2], job.args[3])))

InvGammaLogpdf ==
    /\ Density("invgamma")
    /\ Returns("logpdf",
               Frame(InvGamma_logpdf(job.args[1], job.args[2], job.args[3])))

MultinomialLogpmf ==
    /\ Density("multinomial")
    /\ Returns("logpmf",
               Frame(Multinomial_logpmf(job.args[1], job.args[2], job.args[3])))

PoissonLogpmf ==
    /\ Density("poisson")
    /\ Returns("logpmf", Frame(Poisson_logpmf(job.args[1], job.args[2])))

TLogpdf ==
    /\ Density("t")
    /\ Returns("logpdf",
               Frame(T_logpdf(job.args[1], job.args[2], job.args[3], job.args[4])))

WishartLogpdf ==
    /\ Density("wishart")
    /\ Returns("logpdf",
               Frame(Wishart_logpdf(job.args[1], job.args[2], job.args[3])))

BernoulliRvs ==
    Sampling("bernoulli") /\ Samples("rvs", Bernoulli_rvs(job.args, job.size, rng))
BetaRvs ==
    Sampling("beta") /\ Samples("rvs", Beta_rvs(job.args, job.size, rng))
DirichletRvs ==
    Sampling("dirichlet") /\ Samples("rvs", Dirichlet_rvs(job.args, job.size, rng))
ExponRvs ==
    Sampling("expon") /\ Samples("rvs", Expon_rvs(job.args, job.size, rng))
GammaRvs ==
    Sampling("gamma") /\ Samples("rvs", Gamma_rvs(job.args, job.size, rng))
InvGammaRvs ==
    Sampling("invgamma") /\ Samples("rvs", InvGamma_rvs(job.args, job.size, rng))
MultinomialRvs ==
    Sampling("multinomial")
      /\ Samples("rvs", Multinomial_rvs(job.args, job.size, rng))
NormRvs ==
    Sampling("norm") /\ Samples("rvs", Norm_rvs(job.args, job.size, rng))
PoissonRvs ==
    Sampling("poisson") /\ Samples("rvs", Poisson_rvs(job.args, job.size, rng))
TRvs ==
    Sampling("t") /\ Samples("rvs", T_rvs(job.args, job.size, rng))
WishartRvs ==
    Sampling("wishart") /\ Samples("rvs", Wishart_rvs(job.args, job.size, rng))

Next ==
    \/ NormLogpdf \/ NormEntropy \/ NormRvs
    \/ BernoulliLogpmf \/ BernoulliRvs
    \/ BetaLogpdf \/ BetaRvs
    \/ DirichletLogpdf \/ DirichletRvs
    \/ ExponLogpdf \/ ExponRvs
    \/ GammaLogpdf \/ GammaRvs
    \/ InvGammaLogpdf \/ InvGammaRvs
    \/ MultinomialLogpmf \/ MultinomialRvs
    \/ PoissonLogpmf \/ PoissonRvs
    \/ TLogpdf \/ TRvs
    \/ WishartLogpdf \/ WishartRvs

Spec == Init /\ [][Next]_vars

\* ------------------------------------------------- reference arithmetic
\* Closed forms the claims compare the methods against, written without
\* the operators that model the methods.
Identity(d) ==
    Tensor(<<d, d>>,
      [e \in 1..(d * d) |->
          IF (e - 1) \div d = (e - 1) % d THEN NInt(1) ELSE NZero])

\* The leading shape of a tensor, 1 for a scalar.
LeadingDim(x) == IF x.sh = <<>> THEN 1 ELSE x.sh[1]

Perms(n) ==
    {q \in [1..n -> 1..n] : \A i, j \in 1..n : i # j => q[i] # q[j]}

Inversions(q) ==
    Cardinality({ij \in (DOMAIN q) \X (DOMAIN q) :
                    ij[1] < ij[2] /\ q[ij[1]] > q[ij[2]]})

RECURSIVE DiagonalProduct(_, _, _)
DiagonalProduct(m, q, k) ==
    IF k = 0 THEN RInt(1) ELSE RMul(m[k][q[k]], DiagonalProduct(m, q, k - 1))

RECURSIVE LeibnizSum(_, _)
LeibnizSum(m, Q) ==
    IF Q = {} THEN RInt(0)
    ELSE LET q == CHOOSE c \in Q : TRUE
         IN  RAdd(RMul(Sign(Inversions(q)), DiagonalProduct(m, q, Len(m))),
                  LeibnizSum(m, Q \ {q}))

\* The determinant as the signed sum over permutations.
LeibnizDet(A) == LeibnizSum(Rows(A), Perms(A.sh[1]))

RECURSIVE RProduct(_)
RProduct(s) ==
    IF Len(s) = 0 THEN RInt(1) ELSE RMul(RatOf(s[1]), RProduct(Tail(s)))

\* The determinant of the covariance a rank-0, rank-1 or rank-2 Sigma is
\* read as by the code: the scalar itself, the product, the determinant.
RefDet(Sigma) ==
    IF Rank(Sigma) = 0 THEN RatOf(Sigma.el[1])
    ELSE IF Rank(Sigma) = 1 THEN RProduct(Sigma.el)
    ELSE LeibnizDet(Sigma)

\* The representations of the covariance that Sigma stands for at
\* dimensionality d, other than Sigma itself.
SameCovariance(Sigma, d) ==
    IF Sigma = None
    THEN {Scalar(NInt(1)), ConstVec(NInt(1), d), Identity(d)}
    ELSE IF Rank(Sigma) = 0
    THEN {ConstVec(Sigma.el[1], d), SymMat([i \in 1..d |-> Sigma.el[1]], NZero, d)}
    ELSE IF Rank(Sigma) = 1
    THEN {SymMat(Sigma.el, NZero, Sigma.sh[1])}
    ELSE {}

NormLogpdfCalled == job.dist = "norm" /\ last.m = "logpdf"

\* ---------------------------------------------------------------- claims

\* C1: Norm.logpdf returns the same value for mathematically equivalent
\* covariances given in different representations (absent / scalar 1 /
\* vector of ones / identity; scalar s / vector (s,...,s) / s*I; vector v /
\* diag(v)), for every observation of every dimensionality d and every mean.
C1_EquivalentCovariancesAgree ==
    NormLogpdfCalled =>
        \A S \in SameCovariance(job.args[3], last.f.d) :
            Norm_logpdf(job.args[1], job.args[2], S).ret = last.f.ret

\* C2: Wishart.logpdf ends in NotImplementedError for every (x, df, scale)
\* and never returns a value; Wishart.rvs still returns a sample.
C2_WishartLogpdfNotImplemented ==
    job.dist = "wishart" =>
        /\ last.m = "logpdf" => last.f.ret = Raise("NotImplementedError")
        /\ last.m = "rvs" =>
              /\ last.f.ret.k = "ndarray"
              /\ Len(last.f.ret.el) = job.size

C2_Witness ==
    /\ job.dist = "wishart" /\ last.m = "logpdf" /\ prev.m = "logpdf"
    /\ ~IsT(last.f.ret)

C5_Case ==
    /\ NormLogpdfCalled
    /\ job.args[1] \in {Scalar(NZero), Tensor(<<1>>, <<NZero>>)}
    /\ job.args[2] = Scalar(NZero)
    /\ job.args[3] = Scalar(NInt(1))

C5_StandardNormalAtMode ==
    C5_Case =>
        /\ last.f.ret = Tensor(<<1>>, <<NScale(RNeg(RHalf), Log2Pi)>>)
        /\ tf_log(last.f.det_Sigma) = Scalar(NZero)
        /\ \A i \in 1..Len(last.f.r.el) : last.f.r.el[i] = NZero

C5_Witness == C5_Case /\ Rank(job.args[1]) = 0 /\ IsT(last.f.ret)

\* C6: whenever Norm.logpdf returns, for every shape of x, mu and Sigma,
\* the returned value has rank exactly 1, never rank 0 and never rank 2.
C6_ReturnsRankOne ==
    (NormLogpdfCalled /\ IsT(last.f.ret)) => Rank(last.f.ret) = 1

C6_Witness ==
    /\ NormLogpdfCalled
    /\ Rank(last.f.lps) = 0
    /\ Rank(last.f.ret) = 1

\* C7: Norm.entropy depends only on Sigma: it equals
\* 0.5*(d + d*log(2*pi) + log(det_Sigma)) with d and det_Sigma derived from
\* Sigma alone (scalar: Sigma; vector: product of entries; matrix:
\* determinant), whatever the mean, and the same on a repeated call.
C7_EntropyOfSigmaOnly ==
    (job.dist = "norm" /\ last.m = "entropy") =>
        LET Sigma == job.args[2]
            d == LeadingDim(Sigma)
        IN  /\ last.f.ret =
                 Scalar(NScale(RHalf,
                          NAdd(NAdd(NInt(d), NScale(RInt(d), Log2Pi)),
                               NLog(NRat(RefDet(Sigma))))))
            /\ prev.m = "entropy" => prev.f.ret = last.f.ret

C7_Witness ==
    /\ job.dist = "norm" /\ last.m = "entropy"
    /\ job.args[1] = Scalar(NInt(1))
    /\ Rank(job.args[2]) = 2 /\ job.args[2].sh[1] > 1
    /\ job.args[2].el[2] # NZero

\* C8: for x > 0, a > 0, scale > 0,
\* Gamma.logpdf(x, a, scale) = InvGamma.logpdf(1/x, a, 1/scale) - 2*log(x),
\* with the log-inverse-gamma normalizer logGamma(alpha) - alpha*log(beta).
C8_GammaInvGammaDuality ==
    (job.dist = "gamma" /\ last.m = "logpdf") =>
        last.f.ret =
            tf_sub(InvGamma_logpdf(tf_truediv(C(1), job.args[1]), job.args[2],
                                   tf_truediv(C(1), job.args[3])),
                   tf_mul(C(2), tf_log(tf_squeeze(job.args[1]))))

C8_Witness ==
    /\ job.dist = "gamma" /\ last.m = "logpdf"
    /\ job.args[1] = Scalar(NInt(2))
    /\ job.args[3] = Scalar(NRat(Rat(1, 2)))
    /\ IsT(last.f.ret)

\* C9: every call of Norm.logpdf takes exactly one covariance branch, chosen
\* by Sigma's rank, and it sets (Sigma_inv, det_Sigma) to (identity of size
\* d, 1) for an absent Sigma, (1/Sigma, Sigma) for rank 0, (diagonal of
\* reciprocals, product of entries) for rank 1 and (matrix inverse,
\* determinant) for rank 2; d is x's leading shape, never Sigma's or mu's.
C9_OneBranchByRank ==
    NormLogpdfCalled =>
        LET Sigma == job.args[3]
            f == last.f
            d == LeadingDim(job.args[1])
        IN  /\ f.d = d
            /\ IsT(f.lps) =>
                  \A i \in 1..Len(f.lps.el) :
                      Coef(f.lps.el[i], LogPi) = RMul(RNeg(RHalf), RInt(d))
            /\ Len(f.taken) = 1
            /\ f.taken[1] =
                  (IF Sigma = None THEN "absent"
                   ELSE IF Rank(Sigma) = 0 THEN "scalar"
                   ELSE IF Rank(Sigma) = 1 THEN "vector"
                   ELSE "matrix")
            /\ Sigma = None =>
                  f.Sigma_inv = Identity(d) /\ f.det_Sigma = Scalar(NInt(1))
            /\ (Sigma # None /\ Rank(Sigma) = 0) =>
                  /\ f.Sigma_inv = Scalar(NRat(RInv(RatOf(Sigma.el[1]))))
                  /\ f.det_Sigma = Sigma
            /\ (Sigma # None /\ Rank(Sigma) = 1) =>
                  /\ f.Sigma_inv.sh = <<Sigma.sh[1], Sigma.sh[1]>>
                  /\ \A i, j \in 1..Sigma.sh[1] :
                        f.Sigma_inv.el[(i - 1) * Sigma.sh[1] + j] =
                            (IF i = j THEN NRat(RInv(RatOf(Sigma.el[i])))
                             ELSE NZero)
                  /\ f.det_Sigma = Scalar(NRat(RProduct(Sigma.el)))
            /\ (Sigma # None /\ Rank(Sigma) = 2) =>
                  /\ tf_matmul(Sigma, f.Sigma_inv) = Identity(Sigma.sh[1])
                  /\ f.det_Sigma = Scalar(NRat(LeibnizDet(Sigma)))

C9_Witness ==
    /\ NormLogpdfCalled
    /\ Rank(job.args[3]) = 2 /\ job.args[3].sh[1] = MaxD
    /\ job.args[3].el[2] # NZero
    /\ job.args[2] # None /\ Rank(job.args[2]) = 1
    /\ last.f.taken = <<"matrix">>

\* C10: with mu absent Norm.logpdf returns what it returns with mu the
\* scalar 0 and with mu the zero vector of length d, for every x and Sigma;
\* the three residual branches give the residual r = x.
C10_ZeroMeanIsAbsentMean ==
    (NormLogpdfCalled /\ job.args[2] = None) =>
        \A mu \in {Scalar(NZero), ConstVec(NZero, last.f.d)} :
            LET g == Norm_logpdf(job.args[1], mu, job.args[3])
            IN  /\ g.ret = last.f.ret
                /\ g.r.el = job.args[1].el
                /\ last.f.r.el = job.args[1].el

C10_Witness ==
    /\ NormLogpdfCalled /\ job.args[2] = None
    /\ job.args[1].sh = <<MaxD>> /\ job.args[1].el[MaxD] # NZero
    /\ Rank(job.args[3]) = 2
    /\ IsT(last.f.ret)

====
